---- MODULE Spec2Model ----
(***************************************************************************)
(* The live speaking-practice session of components/SpeakingPractice.tsx:  *)
(* the connect / disconnect lifecycle, the capture processor, the          *)
(* transport callbacks (onopen, onmessage, onclose, onerror), the playback *)
(* scheduler, the transcript buffers, and Finish & Analyze with the        *)
(* analysis request that follows it.                                       *)
(*                                                                         *)
(* One connect() call is an "attempt", numbered 1, 2, ... in call order.   *)
(* Every object an attempt creates (output AudioContext, MediaStream,      *)
(* input AudioContext, ScriptProcessor, LiveSession promise) is named by   *)
(* the attempt's number; a ref holding 0 holds null.                       *)
(*                                                                         *)
(* Text is a sequence of characters; time is counted in sample periods of  *)
(* the 24 kHz output context, so a chunk of n samples lasts n.             *)
(***************************************************************************)
EXTENDS Integers, Sequences, FiniteSets

\* ---------------------------------------------------------------- bounds
\* calls of connect explored by Spec, and by SpecPlayback and SpecTranscript
MaxAttempts == 2
MaxSessions == 1
\* output clock readings 0..MaxClock
MaxClock == 2
\* SpecPlayback: payload sizes 0..MaxBytes, chunks scheduled
MaxBytes == 4
MaxChunks == 2
\* SpecTranscript: characters in a buffer, messages in the history
MaxBuf == 2
MaxHistory == 2
\* frames captured
MaxFrames == 3
\* SpecFinish and SpecRestart: user messages beyond MIN_PHRASES
MaxExtra == 0
\* SpecFinish: calls of handleFinish, chunks scheduled
MaxFinishes == 1
MaxLive == 1
\* SpecRestart: calls of handleFinish
MaxRounds == 2
\* SpecHistory: characters per transcript buffer, messages in the history
MaxText == 1
MaxTurns == 2
\* SpecCodec: samples are the multiples of 1/MaxDen in [-2, 2]
MaxDen == 10

\* ------------------------------------------------------ program constants
MIN_PHRASES == 10

Attempts == 1..MaxAttempts
Chars == {"a", " "}
\* A transcript fragment of one inbound message: absent/empty, or one character.
Deltas == {<<>>} \cup {<<c>> : c \in Chars}
NoSession == [st |-> "none", closeReq |-> FALSE, resolved |-> FALSE]

VARIABLES
  \* React state (useState)
  messages, isConnected, isProcessing, analysis, isMuted,
  \* refs (useRef)
  sessionRef, audioContextRef, nextStartTimeRef, sourcesRef,
  processorRef, inputSourceRef, streamRef,
  currentInputTransRef, currentOutputTransRef,
  \* the component and its pending asynchronous work
  mounted, pc, closureMuted, analysisCall, submitted,
  \* per session, the messages its turn-complete handlers have committed
  committed,
  \* the sample the PCM codec is converting, and how far it has got
  codec,
  \* the browser and the transport: what the created objects are doing
  transport, micLive, procConnected, srcConnected, outCtxOpen, inCtxOpen,
  currentTime, log, captured, pending, sent,
  \* the handler that ran last
  last

refs == <<sessionRef, audioContextRef, nextStartTimeRef, sourcesRef,
          processorRef, inputSourceRef, streamRef,
          currentInputTransRef, currentOutputTransRef>>
ui == <<messages, isConnected, isProcessing, analysis, isMuted>>
env == <<transport, micLive, procConnected, srcConnected, outCtxOpen,
         inCtxOpen, currentTime, log, captured, pending, sent>>
vars == <<ui, refs, mounted, pc, closureMuted, analysisCall, submitted,
          committed, codec, env, last>>

\* ------------------------------------------------------------ pure helpers
Max(a, b) == IF a >= b THEN a ELSE b

RECURSIVE TrimLeft(_)
TrimLeft(t) == IF t # <<>> /\ Head(t) = " " THEN TrimLeft(Tail(t)) ELSE t

RECURSIVE TrimRight(_)
TrimRight(t) ==
  IF t # <<>> /\ t[Len(t)] = " " THEN TrimRight(SubSeq(t, 1, Len(t) - 1)) ELSE t

\* String.prototype.trim
Trim(t) == TrimRight(TrimLeft(t))

\* ---------------------------------------------------------------- PCM codec
\* A sample is a rational number num/den, den > 0.
Rat(n, d) == [num |-> n, den |-> d]

\* The codec at rest.
NoSample == [stage |-> "idle", x |-> Rat(0, 1), pcm |-> 0, out |-> Rat(0, 1)]

\* An encoder that does not clamp.
Clamp_none(x) == x

\* Math.max(-1, Math.min(1, input[i]))
Clamp(x) ==
  IF x.num > x.den THEN Rat(x.den, x.den)
  ELSE IF x.num < -x.den THEN Rat(-x.den, x.den)
  ELSE x

\* An encoder whose positive scale is one short.
Scale_narrow(s) == IF s.num < 0 THEN Rat(s.num * 32768, s.den) ELSE Rat(s.num * 32766, s.den)

\* s < 0 ? s * 0x8000 : s * 0x7FFF
Scale(s) == IF s.num < 0 THEN Rat(s.num * 32768, s.den) ELSE Rat(s.num * 32767, s.den)

\* The store into an Int16Array element: the fraction is dropped (towards
\* zero) and the integer is reduced modulo 2^16 into -32768..32767.
Truncate(v) == IF v.num >= 0 THEN v.num \div v.den ELSE -((-v.num) \div v.den)

ToInt16(i) == ((i + 32768) % 65536) - 32768

\* floatTo16BitPCM, for one sample
floatTo16BitPCM(x) == ToInt16(Truncate(Scale(Clamp(x))))

\* pcm16[i] / 32768.0
Int16ToFloat(p) == Rat(p, 32768)

Abs(i) == IF i < 0 THEN -i ELSE i

userMessageCount == Cardinality({i \in DOMAIN messages : messages[i].role = "user"})

\* Which of the three render branches is on screen.
Screen ==
  IF analysis THEN "analysis"
  ELSE IF ~isConnected /\ messages = <<>> /\ ~isProcessing THEN "join"
  ELSE "main"

Started == {a \in Attempts : pc[a] # "unused"}

\* A state setter called after the component has unmounted has no effect:
\* React drops the update.
Set(new, old) == IF mounted THEN new ELSE old

\* The record of the handler that ran last, for session or attempt s.  The
\* handlers that call disconnect also record whether the session was shown as
\* connected and how many playback sources were live when they were called.
Did(op, s) == [op |-> op, s |-> s, connected |-> FALSE, live |-> 0]

\* The component as constructed: the initial values of useState and useRef.
Constructed ==
  /\ messages = <<>> /\ isConnected = FALSE /\ isProcessing = FALSE
  /\ analysis = FALSE /\ isMuted = FALSE
  /\ sessionRef = 0 /\ audioContextRef = 0 /\ nextStartTimeRef = 0
  /\ sourcesRef = {} /\ processorRef = 0 /\ inputSourceRef = 0 /\ streamRef = 0
  /\ currentInputTransRef = <<>> /\ currentOutputTransRef = <<>>
  /\ mounted = TRUE
  /\ pc = [a \in Attempts |-> "unused"]
  /\ closureMuted = [a \in Attempts |-> FALSE]
  /\ analysisCall = 0 /\ submitted = <<>>
  /\ committed = [a \in Attempts |-> <<>>]
  /\ transport = [a \in Attempts |-> NoSession]
  /\ micLive = {} /\ procConnected = {} /\ srcConnected = {}
  /\ outCtxOpen = {} /\ inCtxOpen = {}
  /\ currentTime = 0 /\ log = <<>> /\ captured = 0
  /\ pending = [a \in Attempts |-> <<>>] /\ sent = [a \in Attempts |-> <<>>]
  /\ last = Did("init", 0)

Init == Constructed /\ codec = NoSample

\* --------------------------------------------------------------- connect
\* connect() up to its first suspension: the three setters, then initAudio,
\* which creates the 24 kHz output context of attempt a and either awaits
\* ctx.resume() (context created suspended) or stores it at once and goes on
\* to request the microphone.  isMuted is captured by the closures that this
\* call of connect creates (onmessage reads the captured constant).
Connect(a, suspended) ==
  /\ mounted /\ Screen = "join"
  /\ a = Cardinality(Started) + 1 /\ a \in Attempts
  /\ isProcessing' = TRUE /\ messages' = <<>> /\ analysis' = FALSE
  /\ closureMuted' = [closureMuted EXCEPT ![a] = isMuted]
  /\ outCtxOpen' = outCtxOpen \cup {a}
  /\ IF suspended
       THEN /\ pc' = [pc EXCEPT ![a] = "resume"]
            /\ UNCHANGED <<audioContextRef, nextStartTimeRef, currentTime>>
       ELSE /\ pc' = [pc EXCEPT ![a] = "mic"]
            /\ audioContextRef' = a /\ nextStartTimeRef' = 0 /\ currentTime' = 0
  /\ last' = Did("connect", a)
  /\ UNCHANGED <<committed, codec, isConnected, isMuted, sessionRef, sourcesRef, processorRef,
                 inputSourceRef, streamRef, currentInputTransRef,
                 currentOutputTransRef, mounted, analysisCall, submitted,
                 transport, micLive, procConnected, srcConnected, inCtxOpen,
                 log, captured, pending, sent>>

\* initAudio resumes after ctx.resume(): the context is stored, the cursor
\* reset, and connect goes on to getUserMedia.
ResumeDone(a) ==
  /\ pc[a] = "resume"
  /\ pc' = [pc EXCEPT ![a] = "mic"]
  /\ audioContextRef' = a /\ nextStartTimeRef' = 0 /\ currentTime' = 0
  /\ last' = Did("resumeDone", a)
  /\ UNCHANGED <<ui, committed, codec, sessionRef, sourcesRef, processorRef, inputSourceRef,
                 streamRef, currentInputTransRef, currentOutputTransRef,
                 mounted, closureMuted, analysisCall, submitted, transport,
                 micLive, procConnected, srcConnected, outCtxOpen, inCtxOpen,
                 log, captured, pending, sent>>

\* getUserMedia resolves: the rest of the try block runs without suspending.
\* The stream, the 16 kHz input context, the source and processor nodes are
\* created and wired, and the session promise is stored in sessionRef.
MicGranted(a) ==
  /\ pc[a] = "mic"
  /\ pc' = [pc EXCEPT ![a] = "done"]
  /\ streamRef' = a /\ micLive' = micLive \cup {a}
  /\ inCtxOpen' = inCtxOpen \cup {a}
  /\ srcConnected' = srcConnected \cup {a}
  /\ procConnected' = procConnected \cup {a}
  /\ inputSourceRef' = a /\ processorRef' = a
  /\ sessionRef' = a
  /\ transport' = [transport EXCEPT ![a] =
                     [st |-> "connecting", closeReq |-> FALSE, resolved |-> FALSE]]
  /\ last' = Did("micGranted", a)
  /\ UNCHANGED <<ui, committed, codec, audioContextRef, nextStartTimeRef, sourcesRef,
                 currentInputTransRef, currentOutputTransRef, mounted,
                 closureMuted, analysisCall, submitted, outCtxOpen,
                 currentTime, log, captured, pending, sent>>

\* getUserMedia rejects: the catch block.
MicDenied(a) ==
  /\ pc[a] = "mic"
  /\ pc' = [pc EXCEPT ![a] = "failed"]
  /\ isProcessing' = Set(FALSE, isProcessing)
  /\ last' = Did("micDenied", a)
  /\ UNCHANGED <<messages, committed, codec, isConnected, analysis, isMuted, refs, mounted,
                 closureMuted, analysisCall, submitted, env>>

\* ------------------------------------------------------------ disconnect
\* sessionRef.current.then(s => s.close()): close is requested; it takes
\* effect at once on an open session and after the handshake on one that is
\* still connecting.
RequestClose(t) ==
  [t EXCEPT !.closeReq = TRUE,
            !.st = IF t.resolved /\ t.st = "open" THEN "closing" ELSE t.st]

CloseSession(tr, ref) == IF ref = 0 THEN tr ELSE [tr EXCEPT ![ref] = RequestClose(@)]

\* A disconnect that drops the stream without stopping its tracks.
StopTracks_dropOnly(live, ref) == live

StopTracks(live, ref) == IF ref = 0 THEN live ELSE live \ {ref}

DisconnectNode(connected, ref) == IF ref = 0 THEN connected ELSE connected \ {ref}

CloseContext(open, ref) == IF ref = 0 THEN open ELSE open \ {ref}

\* A disconnect that stops the sources and leaves them in the set.
StopAll_keep(sources) == sources

\* sourcesRef.current.forEach(s => s.stop()); sourcesRef.current.clear()
StopAll(sources) == {}

disconnect ==
  /\ transport' = CloseSession(transport, sessionRef)
  /\ sessionRef' = 0
  /\ micLive' = StopTracks(micLive, streamRef)
  /\ streamRef' = 0
  /\ procConnected' = DisconnectNode(procConnected, processorRef)
  /\ processorRef' = 0
  /\ srcConnected' = DisconnectNode(srcConnected, inputSourceRef)
  /\ inputSourceRef' = 0
  /\ outCtxOpen' = CloseContext(outCtxOpen, audioContextRef)
  /\ audioContextRef' = 0 /\ currentTime' = 0
  /\ sourcesRef' = StopAll(sourcesRef)
  /\ isConnected' = FALSE

\* The cleanup of the mount effect.
Unmount ==
  /\ mounted
  /\ mounted' = FALSE
  /\ disconnect
  /\ last' = [op |-> "unmount", s |-> sessionRef, connected |-> isConnected,
              live |-> Cardinality(sourcesRef)]
  /\ UNCHANGED <<messages, committed, codec, isProcessing, analysis, isMuted, nextStartTimeRef,
                 currentInputTransRef, currentOutputTransRef, pc, closureMuted,
                 analysisCall, submitted, inCtxOpen, log, captured, pending, sent>>

\* A Finish button that opens one phrase early.
FinishDisabled_early(count, processing) == count < MIN_PHRASES - 1 \/ processing

\* disabled={userMessageCount < MIN_PHRASES || isProcessing}
FinishDisabled(count, processing) == count < MIN_PHRASES \/ processing

\* The Finish & Analyze button: disconnect, setIsProcessing(true), and the call
\* of analyzeSpeakingSession with the history of the render the click came from.
\* analysisCall counts the calls that have not settled yet.
handleFinish ==
  /\ mounted /\ Screen = "main"
  /\ ~FinishDisabled(userMessageCount, isProcessing)
  /\ disconnect
  /\ isProcessing' = TRUE
  /\ analysisCall' = analysisCall + 1
  /\ submitted' = Append(submitted, messages)
  /\ last' = [op |-> "handleFinish", s |-> sessionRef, connected |-> isConnected,
              live |-> Cardinality(sourcesRef)]
  /\ UNCHANGED <<messages, committed, codec, analysis, isMuted, nextStartTimeRef,
                 currentInputTransRef, currentOutputTransRef, mounted, pc,
                 closureMuted, inCtxOpen, log, captured, pending, sent>>

\* A finally block that leaves isProcessing as it is.
Finally_skipped(processing) == processing

\* finally { setIsProcessing(false) }
Finally(processing) == FALSE

\* analyzeSpeakingSession resolves: setAnalysis(result), then finally.
AnalysisResolve ==
  /\ analysisCall > 0
  /\ analysisCall' = analysisCall - 1
  /\ analysis' = Set(TRUE, analysis)
  /\ isProcessing' = Set(Finally(isProcessing), isProcessing)
  /\ last' = Did("analysisResolve", 0)
  /\ UNCHANGED <<messages, committed, codec, isConnected, isMuted, refs, mounted, pc,
                 closureMuted, submitted, env>>

\* analyzeSpeakingSession rejects: the alert, then finally.
AnalysisReject ==
  /\ analysisCall > 0
  /\ analysisCall' = analysisCall - 1
  /\ isProcessing' = Set(Finally(isProcessing), isProcessing)
  /\ last' = Did("analysisReject", 0)
  /\ UNCHANGED <<messages, committed, codec, isConnected, analysis, isMuted, refs, mounted, pc,
                 closureMuted, submitted, env>>

\* The Start New Session button of the analysis screen.
StartNewSession ==
  /\ mounted /\ Screen = "analysis"
  /\ analysis' = FALSE /\ messages' = <<>>
  /\ last' = Did("startNewSession", 0)
  /\ UNCHANGED <<committed, codec, isConnected, isProcessing, isMuted, refs, mounted,
                 pc, closureMuted, analysisCall, submitted, env>>

\* onClick={() => setIsMuted(!isMuted)}.
Toggle_stuck(m) == m

Toggle(m) == ~m

\* The mute button of the live header.
ToggleMute ==
  /\ mounted /\ Screen = "main"
  /\ isMuted' = Toggle(isMuted)
  /\ last' = Did("toggleMute", 0)
  /\ UNCHANGED <<messages, committed, codec, isConnected, isProcessing, analysis, refs, mounted,
                 pc, closureMuted, analysisCall, submitted, env>>

\* ------------------------------------------------- transport callbacks
Reverse(q) == [i \in 1..Len(q) |-> q[Len(q) + 1 - i]]

\* A promise that runs its queued callbacks last first.
Flush_reversed(done, queued) == done \o Reverse(queued)

\* The callbacks queued on the session promise run in the order they were
\* queued: the frames go out in that order.
Flush(done, queued) == done \o queued

\* The handshake succeeds: onopen runs, then the session promise resolves and
\* the callbacks queued on it run in the order they were queued: the sends of
\* the frames captured meanwhile, then the close a disconnect asked for.
OnOpen(s) ==
  /\ transport[s].st = "connecting"
  /\ isConnected' = Set(TRUE, isConnected)
  /\ isProcessing' = Set(FALSE, isProcessing)
  /\ transport' = [transport EXCEPT ![s] =
                     [st |-> IF @.closeReq THEN "closing" ELSE "open",
                      closeReq |-> @.closeReq, resolved |-> TRUE]]
  /\ sent' = [sent EXCEPT ![s] = Flush(@, pending[s])]
  /\ pending' = [pending EXCEPT ![s] = <<>>]
  /\ last' = Did("onopen", s)
  /\ UNCHANGED <<messages, committed, codec, analysis, isMuted, refs, mounted, pc, closureMuted,
                 analysisCall, submitted, micLive, procConnected, srcConnected,
                 outCtxOpen, inCtxOpen, currentTime, log, captured>>

\* onerror: during the handshake (the promise then never resolves) or on an
\* open or closing socket.
OnError(s) ==
  /\ transport[s].st \in {"connecting", "open", "closing"}
  /\ isConnected' = Set(FALSE, isConnected)
  /\ isProcessing' = Set(FALSE, isProcessing)
  /\ transport' = [transport EXCEPT ![s].st = "errored"]
  /\ last' = Did("onerror", s)
  /\ UNCHANGED <<messages, committed, codec, analysis, isMuted, refs, mounted, pc, closureMuted,
                 analysisCall, submitted, micLive, procConnected, srcConnected,
                 outCtxOpen, inCtxOpen, currentTime, log, captured, pending, sent>>

\* onclose: the socket has closed, by the remote end, after an error, or as
\* the effect of the close that disconnect requested.
OnClose(s) ==
  /\ transport[s].st \in {"open", "closing", "errored"}
  /\ isConnected' = Set(FALSE, isConnected)
  /\ transport' = [transport EXCEPT ![s].st = "closed"]
  /\ last' = Did("onclose", s)
  /\ UNCHANGED <<messages, committed, codec, isProcessing, analysis, isMuted, refs, mounted, pc,
                 closureMuted, analysisCall, submitted, micLive, procConnected,
                 srcConnected, outCtxOpen, inCtxOpen, currentTime, log,
                 captured, pending, sent>>

\* The connect promise rejects and no callback is called: nothing awaits or
\* catches the promise stored in sessionRef.
HandshakeReject(s) ==
  /\ transport[s].st = "connecting"
  /\ transport' = [transport EXCEPT ![s].st = "rejected"]
  /\ last' = Did("handshakeReject", s)
  /\ UNCHANGED <<ui, committed, codec, refs, mounted, pc, closureMuted, analysisCall, submitted,
                 micLive, procConnected, srcConnected, outCtxOpen, inCtxOpen,
                 currentTime, log, captured, pending, sent>>

\* ------------------------------------------------------------ onmessage
\* The audio branch is entered for a non-empty payload when the captured
\* isMuted is false and an output context is stored.
AudioBranch(s, bytes) == bytes > 0 /\ ~closureMuted[s] /\ audioContextRef # 0

\* new Int16Array(buffer) throws a RangeError when the byte length is odd.
DecodeThrows(bytes) == bytes % 2 = 1

\* float32.length: one sample per two bytes.
Samples(bytes) == bytes \div 2

\* A scheduler that starts every chunk at the current clock reading.
StartTime_now(cursor, now) == now

\* A scheduler that always starts a chunk at the cursor.
StartTime_cursor(cursor, now) == cursor

\* Math.max(nextStartTimeRef.current, currentTime)
StartTime(cursor, now) == Max(cursor, now)

\* A scheduler that starts a source without entering it in the live set.
AddSource_skip(sources, i) == sources

\* sourcesRef.current.add(source)
AddSource(sources, i) == sources \cup {i}

\* The messages pushed at turnComplete, user first.
NewMessages(inBuf, outBuf) ==
  (IF Trim(inBuf) # <<>> THEN <<[role |-> "user", text |-> Trim(inBuf)]>> ELSE <<>>)
  \o (IF Trim(outBuf) # <<>> THEN <<[role |-> "model", text |-> Trim(outBuf)]>> ELSE <<>>)

\* setMessages(prev => [...prev, ...newMessages]).
Commit_replace(history, new) == new

Commit(history, new) == history \o new

\* A buffer is reset inside the branch that pushes its message.
AfterCommit(buf) == IF Trim(buf) # <<>> THEN <<>> ELSE buf

\* One inbound message of session s: an audio payload of `bytes` bytes (0: none),
\* the two transcript fragments (<<>>: none) and the turnComplete flag.
OnMessage(s, bytes, inT, outT, tc) ==
  /\ transport[s].st \in {"open", "closing"}
  /\ last' = Did("onmessage", s)
  /\ IF AudioBranch(s, bytes) /\ DecodeThrows(bytes)
       THEN \* the async handler rejects before anything is written
            UNCHANGED <<messages, committed, nextStartTimeRef, sourcesRef, log,
                        currentInputTransRef, currentOutputTransRef>>
       ELSE /\ IF AudioBranch(s, bytes)
                 THEN LET startTime == StartTime(nextStartTimeRef, currentTime)
                      IN /\ log' = Append(log, [ctx |-> audioContextRef,
                                                start |-> startTime,
                                                dur |-> Samples(bytes)])
                         /\ nextStartTimeRef' = startTime + Samples(bytes)
                         /\ sourcesRef' = AddSource(sourcesRef, Len(log) + 1)
                 ELSE UNCHANGED <<log, nextStartTimeRef, sourcesRef>>
            /\ LET inBuf == currentInputTransRef \o inT
                   outBuf == currentOutputTransRef \o outT
               IN IF tc
                    THEN /\ messages' = Set(Commit(messages, NewMessages(inBuf, outBuf)), messages)
                         /\ committed' = Set([committed EXCEPT ![s] =
                                                Commit(@, NewMessages(inBuf, outBuf))],
                                             committed)
                         /\ currentInputTransRef' = AfterCommit(inBuf)
                         /\ currentOutputTransRef' = AfterCommit(outBuf)
                    ELSE /\ messages' = messages /\ committed' = committed
                         /\ currentInputTransRef' = inBuf
                         /\ currentOutputTransRef' = outBuf
  /\ UNCHANGED <<codec, isConnected, isProcessing, analysis, isMuted, sessionRef,
                 audioContextRef, processorRef, inputSourceRef, streamRef,
                 mounted, pc, closureMuted, analysisCall, submitted, transport,
                 micLive, procConnected, srcConnected, outCtxOpen, inCtxOpen,
                 currentTime, captured, pending, sent>>

\* source.onended: playback of log entry i has finished on its context.
OnEnded(i) ==
  /\ i \in sourcesRef
  /\ \/ log[i].ctx # audioContextRef
     \/ currentTime >= log[i].start + log[i].dur
  /\ sourcesRef' = sourcesRef \ {i}
  /\ last' = Did("onended", 0)
  /\ UNCHANGED <<ui, committed, codec, sessionRef, audioContextRef, nextStartTimeRef,
                 processorRef, inputSourceRef, streamRef, currentInputTransRef,
                 currentOutputTransRef, mounted, pc, closureMuted,
                 analysisCall, submitted, env>>

\* The output clock of the stored context advances.
Tick ==
  /\ audioContextRef # 0
  /\ currentTime' = currentTime + 1
  /\ last' = Did("tick", 0)
  /\ UNCHANGED <<ui, committed, codec, refs, mounted, pc, closureMuted, analysisCall, submitted,
                 transport, micLive, procConnected, srcConnected, outCtxOpen,
                 inCtxOpen, log, captured, pending, sent>>

\* -------------------------------------------------------------- capture
\* processor.onaudioprocess of attempt p's processor, which fires while the
\* node is connected.  The frame is dropped when sessionRef holds null;
\* otherwise its send is queued on the promise sessionRef holds.  (The level
\* meter, setVolumeLevel, is display only and is left out.)
OnAudioProcess(p) ==
  /\ p \in procConnected
  /\ captured' = captured + 1
  /\ IF sessionRef = 0
       THEN UNCHANGED <<pending, sent>>
       ELSE IF transport[sessionRef].resolved
              THEN /\ sent' = [sent EXCEPT ![sessionRef] = Append(@, captured + 1)]
                   /\ pending' = pending
              ELSE /\ pending' = [pending EXCEPT ![sessionRef] = Append(@, captured + 1)]
                   /\ sent' = sent
  /\ last' = Did("onaudioprocess", p)
  /\ UNCHANGED <<ui, committed, codec, refs, mounted, pc, closureMuted, analysisCall, submitted,
                 transport, micLive, procConnected, srcConnected, outCtxOpen,
                 inCtxOpen, currentTime, log>>

\* ---------------------------------------------------------------- codec
\* floatTo16BitPCM applied to the sample at hand.
Encode ==
  /\ codec.stage = "raw"
  /\ codec' = [codec EXCEPT !.stage = "encoded", !.pcm = floatTo16BitPCM(codec.x)]
  /\ last' = Did("encode", 0)
  /\ UNCHANGED <<ui, refs, mounted, pc, closureMuted, analysisCall, submitted,
                 committed, env>>

\* The decode loop of onmessage applied to the encoded value.
Decode ==
  /\ codec.stage = "encoded"
  /\ codec' = [codec EXCEPT !.stage = "decoded", !.out = Int16ToFloat(codec.pcm)]
  /\ last' = Did("decode", 0)
  /\ UNCHANGED <<ui, refs, mounted, pc, closureMuted, analysisCall, submitted,
                 committed, env>>

\* ------------------------------------------------------- specifications
\* At most n calls of connect, each with an output context that is created
\* running, their transport sessions, and the unmount.
Sessions(n) ==
  \/ \E a \in 1..n : Connect(a, FALSE)
  \/ \E a \in 1..n : MicGranted(a)
  \/ \E a \in 1..n : MicDenied(a)
  \/ Unmount
  \/ \E s \in 1..n : OnOpen(s)
  \/ \E s \in 1..n : OnError(s)
  \/ \E s \in 1..n : OnClose(s)
  \/ \E s \in 1..n : HandshakeReject(s)

\* The session lifecycle with at most n calls of connect: Sessions, output
\* contexts that are created suspended, and the mute button.
Lifecycle(n) ==
  \/ Sessions(n)
  \/ \E a \in 1..n : Connect(a, TRUE)
  \/ \E a \in 1..n : ResumeDone(a)
  \/ ToggleMute

\* Playback of the scheduled sources against the output clock.
Playback ==
  \/ currentTime < MaxClock /\ Tick
  \/ \E i \in DOMAIN log : OnEnded(i)

\* Inbound messages that keep the playback log within k chunks, the buffers
\* within b characters and the history within h messages.
Inbound(n, sizes, deltas, k, b, h) ==
  \E s \in 1..n, bytes \in sizes, inT \in deltas, outT \in deltas, tc \in BOOLEAN :
    /\ AudioBranch(s, bytes) /\ ~DecodeThrows(bytes) => Len(log) < k
    /\ Len(currentInputTransRef \o inT) <= b
    /\ Len(currentOutputTransRef \o outT) <= b
    /\ tc => Len(messages) + Len(NewMessages(currentInputTransRef \o inT,
                                              currentOutputTransRef \o outT)) <= h
    /\ OnMessage(s, bytes, inT, outT, tc)

\* Spec: the lifecycle over MaxAttempts calls of connect, with the capture
\* processors running; no inbound message is delivered.
Next ==
  \/ Lifecycle(MaxAttempts)
  \/ \E p \in 1..MaxAttempts : captured < MaxFrames /\ OnAudioProcess(p)

Spec == Init /\ [][Next]_vars

\* The handshake of session s ends: onopen, onerror, or a rejection of the
\* promise that ai.live.connect returned.
HandshakeSettles(s) ==
  /\ transport[s].st = "connecting"
  /\ (OnOpen(s) \/ OnError(s) \/ HandshakeReject(s))

\* What the browser and the SDK do without the user: a resume() promise
\* resolves, getUserMedia is granted or denied, a handshake ends.
Settles ==
  \A a \in Attempts :
    /\ WF_vars(ResumeDone(a))
    /\ WF_vars(MicGranted(a) \/ MicDenied(a))
    /\ WF_vars(HandshakeSettles(a))

\* SpecLive: Spec, with every pending promise settling and every handshake
\* ending.
SpecLive == Init /\ [][Next]_vars /\ Settles

\* SpecPlayback: inbound audio payloads of every size up to MaxBytes, played
\* against the output clock; no transcript.
NextPlayback ==
  \/ Lifecycle(MaxSessions)
  \/ Playback
  \/ Inbound(MaxSessions, 0..MaxBytes, {<<>>}, MaxChunks, 0, 0)

SpecPlayback == Init /\ [][NextPlayback]_vars

\* SpecTranscript: inbound transcript fragments and turn-complete markers,
\* alone or in a message that also carries a payload of one byte.
NextTranscript ==
  \/ Lifecycle(MaxSessions)
  \/ Inbound(MaxSessions, {0, 1}, Deltas, 0, MaxBuf, MaxHistory)

SpecTranscript == Init /\ [][NextTranscript]_vars

\* SpecHistory: one session's inbound messages of every kind: transcript
\* fragments, audio payloads of two bytes, turn-complete markers.
PayloadSizes == {0, 2}

NextHistory ==
  \/ Sessions(MaxSessions)
  \/ Inbound(MaxSessions, PayloadSizes, Deltas, MaxLive, MaxText, MaxTurns)

SpecHistory == Init /\ [][NextHistory]_vars

\* SpecCarry: transcript fragments and turn-complete markers, without audio,
\* over MaxAttempts calls of connect.
NextCarry ==
  \/ Sessions(MaxAttempts)
  \/ Inbound(MaxAttempts, {0}, Deltas, 0, MaxText, MaxTurns)

SpecCarry == Init /\ [][NextCarry]_vars

\* Complete turns: a turn-complete message that carries the user's phrase and
\* the examiner's reply, and may carry an audio payload of one of `sizes`
\* (at most k chunks are scheduled); the user phrases stay within h.
Turns(n, sizes, k, h) ==
  \E s \in 1..n, bytes \in sizes :
    /\ userMessageCount < h
    /\ AudioBranch(s, bytes) => Len(log) < k
    /\ OnMessage(s, bytes, <<"a">>, <<"a">>, TRUE)

\* Finish & Analyze clicked at most n times, the analysis that follows it, and
\* the analysis screen.
Finishing(n) ==
  \/ Len(submitted) < n /\ handleFinish
  \/ AnalysisResolve
  \/ AnalysisReject
  \/ StartNewSession

\* SpecFinish: a session of complete turns, with or without audio, finished
\* and analysed.
NextFinish ==
  \/ Sessions(MaxSessions)
  \/ Turns(MaxSessions, {0, 2}, MaxLive, MIN_PHRASES + MaxExtra)
  \/ Finishing(MaxFinishes)

SpecFinish == Init /\ [][NextFinish]_vars

\* SpecRestart: sessions of complete turns without audio, finished, analysed,
\* finished again, and started anew from the analysis screen.
NextRestart ==
  \/ Sessions(MaxAttempts)
  \/ Turns(MaxAttempts, {0}, 0, MIN_PHRASES + MaxExtra)
  \/ Finishing(MaxRounds)

SpecRestart == Init /\ [][NextRestart]_vars

\* SpecCodec: one sample, any multiple of 1/MaxDen in [-2, 2], encoded and
\* decoded again.
InitCodec ==
  /\ Constructed
  /\ \E n \in (-2 * MaxDen)..(2 * MaxDen) :
       codec = [NoSample EXCEPT !.stage = "raw", !.x = Rat(n, MaxDen)]

NextCodec == Encode \/ Decode

SpecCodec == InitCodec /\ [][NextCodec]_vars

\* ---------------------------------------------------------------- claims
\* What attempt a still holds: a live microphone track, a connected capture
\* processor, an open audio context, a transport session that is open or opening.
Holds(a) ==
  \/ a \in micLive \/ a \in procConnected
  \/ a \in inCtxOpen \/ a \in outCtxOpen
  \/ transport[a].st \in {"connecting", "open"}

\* C1: a disconnect called while the session is shown as connected leaves the
\* session that sessionRef held with its capture processor disconnected (its
\* onaudioprocess no longer fires), its microphone tracks stopped and its
\* close requested, leaves every ref of the session null, and leaves the live
\* playback-source set empty.
C1_DisconnectReleasesSession ==
  [][(last'.op \in {"unmount", "handleFinish"} /\ isConnected /\ sessionRef # 0) =>
       /\ sessionRef \notin procConnected'
       /\ sessionRef \notin micLive'
       /\ transport'[sessionRef].closeReq
       /\ transport'[sessionRef].st # "open"
       /\ sessionRef' = 0 /\ streamRef' = 0 /\ processorRef' = 0
       /\ inputSourceRef' = 0
       /\ sourcesRef' = {}]_vars

\* C1 witness: disconnect has run on a connected, open session with a playback
\* source live, and the session is now closing.
C1_Witness ==
  /\ last.op = "unmount" /\ last.connected /\ last.live > 0 /\ last.s # 0
  /\ transport[last.s].st = "closing"

\* C2: when the component has unmounted (disconnect has run) while connect was
\* suspended, the step that resumes connect, or that completes its handshake,
\* leaves the attempt holding nothing.
C2_Claim ==
  [][\A a \in Attempts :
       (\/ ~mounted /\ pc[a] \in {"resume", "mic"} /\ pc'[a] \in {"done", "failed"}
        \/ /\ transport[a].closeReq /\ transport[a].st = "connecting"
           /\ transport'[a].st # "connecting")
       => ~Holds(a)']_vars

\* C3: a well-formed audio chunk received while an output context is stored is
\* scheduled if and only if isMuted is false when it is received.
C3_Claim ==
  [][\A s \in Attempts, bytes \in {2, 4} :
       (mounted /\ audioContextRef # 0 /\ OnMessage(s, bytes, <<>>, <<>>, FALSE))
       => ((log' # log) <=> ~isMuted)]_vars

\* C4: after onerror or onclose of session s has run, the capture processor and
\* the microphone of s are released, sessionRef no longer holds s, no playback
\* source is live, and the state is Idle.
C4_Claim ==
  (mounted /\ last.op \in {"onerror", "onclose"}) =>
    /\ last.s \notin procConnected
    /\ last.s \notin micLive
    /\ sessionRef # last.s
    /\ sourcesRef = {}
    /\ ~isConnected /\ ~isProcessing

\* C5: an inbound message of a session on which disconnect has requested close
\* changes neither the history, nor a transcript buffer, nor the live
\* playback-source set, nor the cursor.
C5_Claim ==
  [][\A s \in Attempts :
       (last'.op = "onmessage" /\ last'.s = s /\ transport[s].closeReq)
       => UNCHANGED <<messages, currentInputTransRef, currentOutputTransRef,
                      sourcesRef, nextStartTimeRef>>]_vars

\* C6: right after disconnect no audio context created by a connect that ran to
\* its end is open, output or input.
C6_Claim ==
  last.op \in {"unmount", "handleFinish"} =>
    \A a \in Attempts : pc[a] = "done" => a \notin outCtxOpen /\ a \notin inCtxOpen

\* C7: when getUserMedia fails, the output context of the attempt is closed, no
\* transport session is opened, and the state is Idle.
C7_Claim ==
  (mounted /\ last.op = "micDenied") =>
    /\ last.s \notin outCtxOpen
    /\ transport[last.s].st = "none"
    /\ ~isConnected /\ ~isProcessing

\* C8: the chunks scheduled on one output context are pairwise non-overlapping
\* with start times non-decreasing in arrival order, and the cursor never
\* decreases except where initAudio resets it for a new session.
C8_SchedulerMonotone ==
  [][/\ \A i, j \in DOMAIN log' :
          (i < j /\ log'[i].ctx = log'[j].ctx) =>
             /\ log'[i].start <= log'[j].start
             /\ log'[i].start + log'[i].dur <= log'[j].start
     /\ last'.op \notin {"connect", "resumeDone"} =>
          nextStartTimeRef' >= nextStartTimeRef]_vars

\* C8 witness: a chunk that arrived with the clock ahead of the cursor started
\* at the clock reading, and the next one, arriving before the first had
\* finished, starts where the first ends.
C8_Witness ==
  /\ Len(log) = 2 /\ log[1].ctx = log[2].ctx
  /\ log[1].start > 0 /\ log[1].dur = 2
  /\ log[2].start = log[1].start + log[1].dur
  /\ currentTime < log[2].start
  /\ nextStartTimeRef = log[2].start + log[2].dur

\* The messages a turn-complete event is to append for buffers u and m.
C9_Expected(u, m) ==
  LET user == IF Trim(u) = <<>> THEN <<>> ELSE <<[role |-> "user", text |-> Trim(u)]>>
      model == IF Trim(m) = <<>> THEN <<>> ELSE <<[role |-> "model", text |-> Trim(m)]>>
  IN user \o model

\* C9: a turn-complete event appends to the history one message per buffer
\* whose trimmed content (fragments of the same event included) is non-empty,
\* user before model, and nothing when both are empty.
C9_Claim ==
  [][\A s \in Attempts, bytes \in {0, 1}, inT \in Deltas, outT \in Deltas :
       (mounted /\ OnMessage(s, bytes, inT, outT, TRUE))
       => messages' = messages \o C9_Expected(currentInputTransRef \o inT,
                                              currentOutputTransRef \o outT)]_vars

\* C10: after a turn-complete event (here: one that carries no audio payload)
\* both transcript buffers are empty.
C10_Claim ==
  [][\A s \in Attempts, inT \in Deltas, outT \in Deltas :
       OnMessage(s, 0, inT, outT, TRUE)
       => currentInputTransRef' = <<>> /\ currentOutputTransRef' = <<>>]_vars

\* The session a history belongs to: the one the latest connect created.
Current == Cardinality(Started)

\* C11: handleFinish leaves the session torn down and submits one list to the
\* analysis, which is exactly the list of the messages that the turn-complete
\* events of the session have committed, in commit order.
C11_Claim ==
  [][last'.op = "handleFinish" =>
       /\ sessionRef' = 0 /\ streamRef' = 0 /\ processorRef' = 0
       /\ sourcesRef' = {} /\ ~isConnected'
       /\ Len(submitted') = Len(submitted) + 1
       /\ submitted'[Len(submitted')] = committed[Current]]_vars

\* The user-role messages of a submitted history.
UserCount(history) == Cardinality({i \in DOMAIN history : history[i].role = "user"})

\* C12: every history that handleFinish has submitted holds at least 10 user
\* messages, and on the live screen, outside a pending connect or analysis, the
\* Finish button is enabled exactly when the history holds at least 10 user
\* messages: disabled at 9, enabled at 10.
C12_FinishGate ==
  /\ \A i \in DOMAIN submitted : UserCount(submitted[i]) >= 10
  /\ (mounted /\ Screen = "main" /\ ~isProcessing) =>
       (~FinishDisabled(userMessageCount, isProcessing) <=> userMessageCount >= 10)
  /\ userMessageCount = 9 => FinishDisabled(userMessageCount, isProcessing)

\* C12 witness: Finish & Analyze has been clicked on a history of exactly 10
\* user messages, the first count at which the button is enabled.
C12_Witness ==
  /\ last.op = "handleFinish" /\ userMessageCount = 10
  /\ UserCount(submitted[Len(submitted)]) = 10

\* C13: every disconnect leaves the live playback-source set empty, and a
\* disconnect called right after another one, or before any connect has been
\* called, changes nothing: no ref, no flag, no device, context or session.
C13_DisconnectIdempotent ==
  [][last'.op \in {"unmount", "handleFinish"} =>
       /\ sourcesRef' = {}
       /\ (last.op \in {"unmount", "handleFinish", "init"} \/ Started = {}) =>
            UNCHANGED <<sessionRef, audioContextRef, sourcesRef, processorRef,
                        inputSourceRef, streamRef, isConnected, transport,
                        micLive, procConnected, srcConnected, outCtxOpen,
                        inCtxOpen, currentTime>>]_vars

\* C13 witness: the first disconnect (Finish & Analyze) was called with a
\* playback source live, and the unmount has called disconnect again with
\* nothing acquired in between.
C13_Witness ==
  /\ last.op = "unmount" /\ last.s = 0 /\ last.live = 0 /\ ~last.connected
  /\ Len(submitted) > 0 /\ log # <<>> /\ sourcesRef = {}
  /\ Cardinality(Started) = 1

\* C14: a frame captured while the handshake of the session in sessionRef has
\* not completed is dropped: when the handshake completes, no frame captured
\* before that is delivered to the transport.
C14_Claim ==
  [][\A s \in Attempts :
       (last'.op = "onopen" /\ last'.s = s) => sent'[s] = sent[s]]_vars

\* C15: after onerror has run, the start-session action is available (the join
\* screen, the only place of the start button, is shown), whatever the number
\* of committed messages.
C15_Claim ==
  (mounted /\ last.op = "onerror") => Screen = "join"

\* C16: an inbound event whose audio chunk cannot be decoded (odd byte length)
\* still has its transcript fragments and its turn-complete marker applied:
\* the buffers and the history end as they do for the same event without audio.
C16_Claim ==
  [][\A s \in Attempts, inT \in Deltas, outT \in Deltas, tc \in BOOLEAN :
       (mounted /\ OnMessage(s, 1, inT, outT, tc)) =>
          LET inBuf == currentInputTransRef \o inT
              outBuf == currentOutputTransRef \o outT
          IN /\ currentInputTransRef' = IF tc THEN AfterCommit(inBuf) ELSE inBuf
             /\ currentOutputTransRef' = IF tc THEN AfterCommit(outBuf) ELSE outBuf
             /\ messages' = IF tc THEN messages \o NewMessages(inBuf, outBuf)
                                  ELSE messages]_vars

\* C17: decoding an inbound payload of n bytes, odd n included, raises no
\* error and yields floor(n/2) samples: the chunk is scheduled with that many.
C17_Claim ==
  [][\A s \in Attempts, bytes \in 1..MaxBytes :
       (AudioBranch(s, bytes) /\ OnMessage(s, bytes, <<>>, <<>>, FALSE)) =>
          /\ Len(log') = Len(log) + 1
          /\ log'[Len(log')].dur = bytes \div 2]_vars

\* C18: the live playback-source set holds exactly the chunks that have been
\* scheduled and have neither ended nor been stopped.  A source enters the set
\* in the step that schedules it and in no other; a source leaves the set only
\* when its onended runs or when disconnect stops and clears them all; and a
\* chunk of the stored context whose end the clock has not reached is in the set.
C18_LiveSetExact ==
  [][/\ sourcesRef' \subseteq DOMAIN log'
     /\ \A i \in DOMAIN log' :
          i \notin DOMAIN log <=> (i \in sourcesRef' /\ i \notin sourcesRef)
     /\ \A i \in sourcesRef \ sourcesRef' :
          \/ last'.op = "onended" /\ sourcesRef' = sourcesRef \ {i}
          \/ last'.op \in {"unmount", "handleFinish"} /\ sourcesRef' = {}
     /\ \A i \in DOMAIN log' :
          (log'[i].ctx = audioContextRef' /\ currentTime' < log'[i].start + log'[i].dur)
            => i \in sourcesRef']_vars

\* C18 witness: two chunks have been scheduled, the first has ended and left
\* the set, the second is still playing and is the only live source.
C18_Witness ==
  /\ Len(log) = 2 /\ sourcesRef = {2} /\ last.op = "onended"
  /\ log[2].ctx = audioContextRef
  /\ currentTime < log[2].start + log[2].dur

\* C19: when the analysis fails, the history is unchanged, isProcessing is
\* cleared (the state leaves Finishing), and the Finish button is enabled again
\* on the live screen, so that the same history can be submitted again with no
\* new session started.
C19_Claim ==
  [][(mounted /\ last'.op = "analysisReject") =>
       /\ messages' = messages
       /\ ~isProcessing'
       /\ Screen' = "main"
       /\ ~FinishDisabled(userMessageCount', isProcessing')]_vars

\* The frames of q from position n + 1 on.
After(q, n) == SubSeq(q, n + 1, Len(q))

\* C20: frames reach the transport in capture order, each at most once and
\* one per send: whatever a step delivers to a session is appended to what the
\* session was sent before, in increasing capture order, and every frame it
\* delivers was captured after every frame delivered earlier to any session.
C20_CaptureOrder ==
  [][\A s \in Attempts :
       sent'[s] # sent[s] =>
         LET new == After(sent'[s], Len(sent[s]))
         IN /\ Len(sent'[s]) > Len(sent[s])
            /\ SubSeq(sent'[s], 1, Len(sent[s])) = sent[s]
            /\ \A i, j \in DOMAIN new : i < j => new[i] < new[j]
            /\ \A i \in DOMAIN new : new[i] \in 1..captured'
            /\ \A i \in DOMAIN new, t \in Attempts :
                 \A k \in DOMAIN sent[t] : sent[t][k] < new[i]
            /\ last'.op = "onaudioprocess" => Len(new) = 1]_vars

\* C20 witness: two frames captured during the handshake have been delivered,
\* in capture order, by the step that completed it.
C20_Witness ==
  /\ last.op = "onopen" /\ last.s \in Attempts
  /\ sent[last.s] = <<1, 2>> /\ pending[last.s] = <<>>

\* C21: a step that schedules a chunk starts it at the larger of the cursor
\* and the clock reading and moves the cursor to that start plus the chunk's
\* duration; a chunk that arrives with the clock past the cursor starts at the
\* clock reading.
C21_SelfHeal ==
  [][Len(log') = Len(log) + 1 =>
       LET chunk == log'[Len(log')]
       IN /\ chunk.start >= nextStartTimeRef /\ chunk.start >= currentTime
          /\ chunk.start \in {nextStartTimeRef, currentTime}
          /\ nextStartTimeRef' = chunk.start + chunk.dur
          /\ currentTime > nextStartTimeRef => chunk.start = currentTime]_vars

\* C21 witness: the first chunk had finished and the clock had passed the
\* cursor when the second chunk arrived; the second starts at the clock
\* reading, after a gap.
C21_Witness ==
  /\ last.op = "onmessage" /\ Len(log) = 2 /\ log[1].ctx = log[2].ctx
  /\ log[2].start > log[1].start + log[1].dur
  /\ log[2].start = currentTime
  /\ nextStartTimeRef = log[2].start + log[2].dur

\* C22: every encoded value lies in -32768..32767; a sample above 1 (2.0)
\* encodes to 32767 and a sample below -1 (-2.0) to -32768; in between a
\* negative sample is scaled by 32768 and a non-negative one by 32767, the
\* fraction dropped.
C22_EncodeClamps ==
  codec.stage \in {"encoded", "decoded"} =>
    LET n == codec.x.num
        d == codec.x.den
    IN /\ codec.pcm \in -32768..32767
       /\ n > d => codec.pcm = 32767
       /\ n < -d => codec.pcm = -32768
       /\ (-d <= n /\ n < 0) => codec.pcm = -((-n * 32768) \div d)
       /\ (0 <= n /\ n <= d) => codec.pcm = (n * 32767) \div d

\* C22 witness: the sample 2.0 has been encoded, to 32767.
C22_Witness ==
  /\ codec.stage = "encoded" /\ codec.x.num = 2 * codec.x.den
  /\ codec.pcm = 32767

\* The round-trip error of the decoded sample, scaled to integers:
\* |out - x| * 32768 * out.den * x.den.
RoundTripError == Abs(codec.out.num * codec.x.den - codec.x.num * codec.out.den) * 32768

\* One quantization step (1/32768) on the same scale.
Step == codec.out.den * codec.x.den

\* C23, as stated: for every sample x in [-1, 1], decoding the encoded value
\* yields a value within one quantization step 1/32768 of x.
C23_WithinOneStep ==
  (codec.stage = "decoded" /\ Abs(codec.x.num) <= codec.x.den) =>
    RoundTripError <= Step

\* C23, amended: for every sample x in [-1, 1] the decoded value is within less
\* than two quantization steps of x, never above x in magnitude, and a negative
\* sample is within less than one step.
C23_WithinTwoSteps ==
  (codec.stage = "decoded" /\ Abs(codec.x.num) <= codec.x.den) =>
    /\ RoundTripError < 2 * Step
    /\ Abs(codec.out.num) * codec.x.den <= Abs(codec.x.num) * codec.out.den
    /\ codec.x.num < 0 => RoundTripError < Step

\* C23 witness: a sample of [-1, 1] has been encoded and decoded, and came back
\* more than one step away.
C23_Witness ==
  /\ codec.stage = "decoded" /\ Abs(codec.x.num) <= codec.x.den
  /\ RoundTripError > Step

\* The Connecting state: the component is mounted and shows the spinner that
\* connect turned on.
Connecting == mounted /\ isProcessing

\* C24: every connect attempt eventually leaves the Connecting state, to
\* Connected when the handshake succeeds and to Idle when the microphone or the
\* handshake fails, also when the failure is only a rejection of the connect
\* promise.
C24_Claim == Connecting ~> ~Connecting

\* C25: the history changes only in a step that handles a turn-complete
\* message, and that step appends: the history before it is a proper prefix of
\* the history after it.  A message without the turn-complete marker, whatever
\* transcript fragments or audio it carries, leaves the history as it was.
C25_AppendOnly ==
  [][/\ messages' # messages =>
          /\ last'.op = "onmessage"
          /\ \E bytes \in PayloadSizes, inT \in Deltas, outT \in Deltas :
               OnMessage(last'.s, bytes, inT, outT, TRUE)
          /\ Len(messages') > Len(messages)
          /\ SubSeq(messages', 1, Len(messages)) = messages
     /\ last'.op = "onmessage" =>
          \A bytes \in PayloadSizes, inT \in Deltas, outT \in Deltas :
            OnMessage(last'.s, bytes, inT, outT, FALSE) => messages' = messages]_vars

\* C25 witness: two turn-complete messages have been handled, each of which
\* appended a user message, and a transcript fragment is waiting in a buffer.
C25_Witness ==
  /\ last.op = "onmessage" /\ Len(messages) >= 2
  /\ messages[1].role = "user" /\ messages[2].role = "user"
  /\ currentOutputTransRef # <<>>

\* C26: a click on the mute button inverts the mute flag and changes nothing
\* else: the live playback sources, the playback cursor, both transcript
\* buffers, the history, the capture pipeline (stream, source, processor,
\* contexts, frames captured and sent) and the transport session stay as they
\* were, and so does the mute value the session's handlers captured.
C26_ToggleFrame ==
  [][last'.op = "toggleMute" =>
       /\ isMuted' = ~isMuted
       /\ UNCHANGED <<sourcesRef, nextStartTimeRef, log, currentTime>>
       /\ UNCHANGED <<currentInputTransRef, currentOutputTransRef, messages>>
       /\ UNCHANGED <<streamRef, inputSourceRef, processorRef, audioContextRef,
                      micLive, srcConnected, procConnected, inCtxOpen, outCtxOpen,
                      captured, pending, sent>>
       /\ UNCHANGED <<sessionRef, transport, closureMuted>>
       /\ UNCHANGED <<isConnected, isProcessing, analysis, mounted, pc>>]_vars

\* C26 witness: the user has just muted an open session that has a source
\* playing and its capture processor running.
C26_Witness ==
  /\ last.op = "toggleMute" /\ isMuted
  /\ sessionRef # 0 /\ transport[sessionRef].st = "open"
  /\ sourcesRef # {} /\ sessionRef \in procConnected

\* C27: connect starts only when nothing of an earlier attempt is held: no
\* attempt has a live microphone, a connected processor, an open context or an
\* open or opening transport session, and every ref is null, so that connect
\* overwrites no handle.
C27_Claim ==
  [][last'.op = "connect" =>
       /\ \A a \in Attempts : ~Holds(a)
       /\ sessionRef = 0 /\ streamRef = 0 /\ processorRef = 0
       /\ inputSourceRef = 0 /\ audioContextRef = 0]_vars

\* C28: a callback of a session older than the one the latest connect created
\* changes neither the connected and processing flags, nor the history, nor a
\* transcript buffer, nor the playback log, the live sources or the cursor.
C28_Claim ==
  [][(last'.op \in {"onmessage", "onopen", "onclose", "onerror"} /\ last'.s < Current) =>
       UNCHANGED <<isConnected, isProcessing, messages, currentInputTransRef,
                   currentOutputTransRef, log, sourcesRef, nextStartTimeRef>>]_vars

\* C29: when connect starts a session both transcript buffers are empty.
C29_Claim ==
  [][last'.op = "connect" =>
       currentInputTransRef' = <<>> /\ currentOutputTransRef' = <<>>]_vars

\* C30: at most one analysis request is outstanding, and while one is
\* outstanding the Finish button, where it is shown, is disabled.
C30_Claim ==
  /\ analysisCall <= 1
  /\ (analysisCall > 0 /\ mounted /\ Screen = "main") =>
       FinishDisabled(userMessageCount, isProcessing)

====
